---- MODULE Spec2Model ----
(***************************************************************************)
(* One-box ocean chemistry model (Sarmiento and Gruber 2006, Fig. 1.1.2):  *)
(* the classes onebox and onebox_sinusoid_river of the two notebooks       *)
(* ocean_onebox_equations.ipynb (constant and sinusoidal river input).     *)
(*                                                                         *)
(* An instance is a Python object: a finite map from attribute names to    *)
(* values.  integrate_tracer stores its arguments on the instance, hands   *)
(* the bound method ocean_onebox_equations to scipy's solve_ivp, stores    *)
(* the solver's arrays on the instance, plots them and returns them.       *)
(*                                                                         *)
(* Numbers.  Python floats are modelled by exact rationals [n, d] in       *)
(* lowest terms with d > 0; a record with d = 0 stands for a non-finite    *)
(* float (inf and nan are not told apart, except +inf as the default       *)
(* max_step).  Rounding is not modelled.                                   *)
(*                                                                         *)
(* The solver.  scipy.integrate.solve_ivp is a library outside the         *)
(* repository.  It is modelled by its contract: it validates max_step,     *)
(* evaluates the callback, advances from t0 towards t_bound in steps whose *)
(* sizes it picks itself (here: any of StepSizes, at most max_step, the    *)
(* last one clipped to t_bound), reports failure through its status when   *)
(* the callback yields a non-finite value, and returns the arrays t (n)    *)
(* and y (1 x n).  One step is an explicit Runge-Kutta step reduced to     *)
(* its first stage, y + h * f(t, y).                                       *)
(*                                                                         *)
(* Specifications.  Spec: calls of integrate_tracer, one whole call per    *)
(* step.  SpecCall: one call with any arguments.  SpecScenario: the runs   *)
(* of the notebook while the solver evaluates the equation.                *)
(* SpecSequential and SpecThreads: two calls followed statement by         *)
(* statement, one after the other or from two threads.  SpecRadiation:     *)
(* compute_N of Lab-1-Climate-sensitivity-in-RCE.ipynb.                    *)
(***************************************************************************)
EXTENDS Integers, Sequences, FiniteSets, TLC

VARIABLES
  self,     \* the model instance: attribute name -> value
  args,     \* the arguments of the last integrate_tracer call (before the
            \* first call: of the call about to be made)
  solver,   \* the solve_ivp call of the last integrate_tracer call: as it
            \* ended, or as far as it has evaluated the equations
  result,   \* what the last integrate_tracer call gave its caller
  heap,     \* the ndarray objects alive: object id -> array
  figure,   \* the last figure plot_timeserie rendered
  attempts, \* the solve_ivp invocations of the last integrate_tracer call:
            \* how each of them ended, in order
  radiation, \* the radiation record handed to compute_N
  N,         \* what compute_N returned for it
  calls      \* the integrate_tracer calls that are followed statement by
             \* statement: caller -> where the call is, its arguments, its
             \* local variable solver, its figures and what it returned

vars == <<self, args, solver, result, heap, figure, attempts, radiation, N, calls>>

----------------------------------------------------------------------------
(* Bounds and input sets *)

\* run_duration ranges over 0 .. MaxDurationUnits quarter periods
MaxDurationUnits == 2

\* how many keyword arguments a call of integrate_tracer overrides at most
MaxOverrides == 1

\* how many evaluations of the callback are followed in a run that is
\* watched while the solver is at work
MaxEvaluations == 3

\* how many levels of the atmosphere a radiation record has
Levels == 2

\* the period of the river forcing, years
timescale_variation_river == 100000

\* a quarter of the forcing period: the grain of the model's times
QuarterPeriod == timescale_variation_river \div 4

----------------------------------------------------------------------------
(* Floats as exact rationals *)

RECURSIVE GCD(_, _)
GCD(a, b) == IF b = 0 THEN a ELSE GCD(b, a % b)

Abs(i) == IF i < 0 THEN -i ELSE i

Rat(n, d) ==
  LET g == GCD(Abs(n), Abs(d))
      s == IF d < 0 THEN -1 ELSE 1
  IN [n |-> s * (n \div g), d |-> s * (d \div g)]

Num(i) == [n |-> i, d |-> 1]

NonFinite == [n |-> 0, d |-> 0]

PosInf == [n |-> 1, d |-> 0]

IsFinite(x) == x.d # 0

Neg(x) == [n |-> -x.n, d |-> x.d]

Add(x, y) ==
  IF ~IsFinite(x) \/ ~IsFinite(y) THEN NonFinite
  ELSE LET g == GCD(x.d, y.d)
       IN Rat(x.n * (y.d \div g) + y.n * (x.d \div g), (x.d \div g) * y.d)

Sub(x, y) == Add(x, Neg(y))

Mul(x, y) ==
  IF ~IsFinite(x) \/ ~IsFinite(y) THEN NonFinite
  ELSE LET g1 == GCD(Abs(x.n), y.d)
           g2 == GCD(Abs(y.n), x.d)
       IN Rat((x.n \div g1) * (y.n \div g2), (x.d \div g2) * (y.d \div g1))

\* numpy division: a zero divisor gives inf or nan (the warning is ignored)
Div(x, y) ==
  IF ~IsFinite(x) \/ ~IsFinite(y) \/ y.n = 0 THEN NonFinite
  ELSE Mul(x, Rat(y.d, y.n))

Less(x, y) == x.n * y.d < y.n * x.d

Leq(x, y) == x.n * y.d <= y.n * x.d

AbsR(x) == [n |-> Abs(x.n), d |-> x.d]

Floor(x) == x.n \div x.d

\* Bhaskara's rational approximation of sin(pi * u) on 0 <= u <= 1
Bhaskara(u) ==
  LET p == Mul(u, Sub(Num(1), u))
  IN Div(Mul(Num(16), p), Sub(Num(5), Mul(Num(4), p)))

\* math.sin(2 * pi * x): the angle is measured in turns; exact at the
\* multiples of a quarter turn, within 0.002 elsewhere
sin_turns(x) ==
  LET f == Sub(x, Num(Floor(x)))
  IN IF Leq(f, Rat(1, 2)) THEN Bhaskara(Mul(Num(2), f))
     ELSE Neg(Bhaskara(Sub(Mul(Num(2), f), Num(1))))

----------------------------------------------------------------------------
(* ndarrays and Python objects *)

ndarray(shape, data) == [shape |-> shape, data |-> data]

\* numpy.squeeze: every axis of length 1 is removed
squeeze(a) == ndarray(SelectSeq(a.shape, LAMBDA s : s # 1), a.data)

hasattr(obj, a) == a \in DOMAIN obj

setattr(obj, a, v) ==
  [x \in DOMAIN obj \cup {a} |-> IF x = a THEN v ELSE obj[x]]

----------------------------------------------------------------------------
(* What the callers pass *)

Classes == {"onebox", "onebox_sinusoid_river"}

Volumes == {Num(0), Num(2)}

Fluxes == {Num(0), Num(3)}

Names == {"Calcium", "Silicon"}

RiverConcs == {Num(0), Num(4)}

RemovalRates == {Rat(-1, timescale_variation_river), Num(0),
                 Rat(1, timescale_variation_river)}

ConcInis == {Num(0), Num(1200000)}

RunDurations == {Num(i * QuarterPeriod) : i \in 0..MaxDurationUnits}

\* maxstep exists in onebox_sinusoid_river only; onebox passes no max_step
\* and the solver's default is inf
MaxStepArgs(cls) ==
  IF cls = "onebox" THEN {PosInf}
  ELSE {Num(0), Num(QuarterPeriod), Num(timescale_variation_river)}

\* the step sizes the solver's step-size control may settle on
StepSizes == {Num(QuarterPeriod), Num(2 * QuarterPeriod)}

----------------------------------------------------------------------------
(* The governing equation *)

\* Faulty variant: the closing parenthesis of the numerator is lost, so only
\* the removal term is divided by volume_ocean.
onebox_equations_precedence(obj, time, conc) ==
  Sub(Mul(obj.river_flux, obj.river_conc),
      Div(Mul(Mul(obj.removal_rate, conc), obj.volume_ocean), obj.volume_ocean))

\* Faulty variant: the river input is not scaled by river_flux.
onebox_equations_no_flux(obj, time, conc) ==
  Div(Sub(obj.river_conc, Mul(Mul(obj.removal_rate, conc), obj.volume_ocean)),
      obj.volume_ocean)

\* Faulty variant: the removal term is added to the river input.
onebox_equations_sign(obj, time, conc) ==
  Div(Add(Mul(obj.river_flux, obj.river_conc),
          Mul(Mul(obj.removal_rate, conc), obj.volume_ocean)),
      obj.volume_ocean)

\* Faulty variant: the equation looks at the name of the tracer, and removes
\* nothing of a tracer that is not Calcium.
onebox_equations_by_name(obj, time, conc) ==
  IF obj.name = "Calcium"
  THEN Div(Sub(Mul(obj.river_flux, obj.river_conc),
               Mul(Mul(obj.removal_rate, conc), obj.volume_ocean)),
           obj.volume_ocean)
  ELSE Div(Mul(obj.river_flux, obj.river_conc), obj.volume_ocean)

\* onebox.ocean_onebox_equations
onebox_equations(obj, time, conc) ==
  Div(Sub(Mul(obj.river_flux, obj.river_conc),
          Mul(Mul(obj.removal_rate, conc), obj.volume_ocean)),
      obj.volume_ocean)

\* Faulty variant: the swing of the river concentration is river_conc, not
\* half of it.
vary_river_conc_full_swing(obj, time) ==
  Add(obj.river_conc,
      Mul(obj.river_conc, sin_turns(Div(time, Num(timescale_variation_river)))))

\* Faulty variant: the river concentration swings once per run, not once per
\* timescale_variation_river.
vary_river_conc_period_of_run(obj, time) ==
  Add(obj.river_conc,
      Mul(Div(obj.river_conc, Num(2)), sin_turns(Div(time, obj.time_end))))

\* Faulty variant: the river concentration follows a cosine, so it starts at
\* its largest value and not at river_conc.
vary_river_conc_cosine(obj, time) ==
  Add(obj.river_conc,
      Mul(Div(obj.river_conc, Num(2)),
          sin_turns(Add(Div(time, Num(timescale_variation_river)), Rat(1, 4)))))

\* the river concentration of onebox_sinusoid_river at a time
vary_river_conc(obj, time) ==
  Add(obj.river_conc,
      Mul(Div(obj.river_conc, Num(2)),
          sin_turns(Div(time, Num(timescale_variation_river)))))

\* onebox_sinusoid_river.ocean_onebox_equations
sinusoid_equations(obj, time, conc) ==
  Div(Sub(Mul(obj.river_flux, vary_river_conc(obj, time)),
          Mul(Mul(obj.removal_rate, conc), obj.volume_ocean)),
      obj.volume_ocean)

\* self.ocean_onebox_equations: the method of the instance's class, reading
\* the attributes the instance has when it is called
ocean_onebox_equations(obj, time, conc) ==
  IF obj.cls = "onebox" THEN onebox_equations(obj, time, conc)
  ELSE sinusoid_equations(obj, time, conc)

----------------------------------------------------------------------------
(* compute_N of Lab-1-Climate-sensitivity-in-RCE.ipynb *)

\* the fluxes of a radiation record, W/m2, at one level
FluxValues == {Num(0), Num(1), Num(3)}

\* a profile: one value per level
Profiles == [1..Levels -> FluxValues]

\* the radiation records: down- and up-going longwave and shortwave fluxes
Radiations ==
  [lw_flxd : Profiles, lw_flxu : Profiles, sw_flxd : Profiles, sw_flxu : Profiles]

NoRadiation == [lw_flxd |-> <<>>, lw_flxu |-> <<>>, sw_flxd |-> <<>>, sw_flxu |-> <<>>]

NotComputed == <<>>

\* Faulty variant: up minus down.
compute_N_upward(rad) ==
  [i \in DOMAIN rad.lw_flxd |->
     Sub(Add(Sub(rad.lw_flxu[i], rad.lw_flxd[i]), rad.sw_flxu[i]), rad.sw_flxd[i])]

\* compute_N: lw_flxd - lw_flxu + sw_flxd - sw_flxu, level by level, from
\* left to right
compute_N(rad) ==
  [i \in DOMAIN rad.lw_flxd |->
     Sub(Add(Sub(rad.lw_flxd[i], rad.lw_flxu[i]), rad.sw_flxd[i]), rad.sw_flxu[i])]

----------------------------------------------------------------------------
(* __init__ *)

construct(cls, volume_ocean, river_flux) ==
  [cls |-> cls, volume_ocean |-> volume_ocean, river_flux |-> river_flux]

----------------------------------------------------------------------------
(* The heap of ndarray objects *)

NoObject == 0

EmptyHeap == [i \in {} |-> ndarray(<<>>, <<>>)]

\* the smallest id no live object has
FreshId(h) ==
  CHOOSE i \in 1..(Cardinality(DOMAIN h) + 1) :
    i \notin DOMAIN h /\ \A j \in 1..(i - 1) : j \in DOMAIN h

new_array(h, a) == [i \in DOMAIN h \cup {FreshId(h)} |-> IF i \in DOMAIN h THEN h[i] ELSE a]

\* the arrays an instance refers to
Refs(obj) == {obj[a] : a \in {"time", "tracer_conc"} \cap DOMAIN obj}

\* garbage collection: only referenced arrays stay
collect(h, roots) == [i \in DOMAIN h \cap roots |-> h[i]]

----------------------------------------------------------------------------
(* integrate_tracer, first part: the arguments become attributes *)

\* Faulty variant: river_conc is written to river_flux as well.
store_arguments_flux(obj, a) ==
  LET s1 == setattr(obj, "name", a.name)
      s2 == setattr(setattr(s1, "river_conc", a.river_conc), "river_flux", a.river_conc)
      s3 == setattr(s2, "removal_rate", a.removal_rate)
      s4 == setattr(s3, "conc_ini", ndarray(<<1>>, <<a.conc_ini>>))
      s5 == setattr(s4, "time_ini", Num(0))
      s6 == setattr(s5, "time_end", a.run_duration)
  IN IF obj.cls = "onebox" THEN s6 ELSE setattr(s6, "max_step", a.maxstep)

\* Faulty variant: name is set by the first call only.
store_arguments_name_once(obj, a) ==
  LET s1 == IF hasattr(obj, "name") THEN obj ELSE setattr(obj, "name", a.name)
      s2 == setattr(s1, "river_conc", a.river_conc)
      s3 == setattr(s2, "removal_rate", a.removal_rate)
      s4 == setattr(s3, "conc_ini", ndarray(<<1>>, <<a.conc_ini>>))
      s5 == setattr(s4, "time_ini", Num(0))
      s6 == setattr(s5, "time_end", a.run_duration)
  IN IF obj.cls = "onebox" THEN s6 ELSE setattr(s6, "max_step", a.maxstep)

\* Faulty variant: a run starts from the concentration the run before it
\* started from.
store_arguments_conc_ini_once(obj, a) ==
  LET s1 == setattr(obj, "name", a.name)
      s2 == setattr(s1, "river_conc", a.river_conc)
      s3 == setattr(s2, "removal_rate", a.removal_rate)
      s4 == IF hasattr(obj, "conc_ini") THEN s3
            ELSE setattr(s3, "conc_ini", ndarray(<<1>>, <<a.conc_ini>>))
      s5 == setattr(s4, "time_ini", Num(0))
      s6 == setattr(s5, "time_end", a.run_duration)
  IN IF obj.cls = "onebox" THEN s6 ELSE setattr(s6, "max_step", a.maxstep)

\* Faulty variant: river_conc is set by the first call only, and later calls
\* run with the river concentration the first call left on the instance.
store_arguments_river_conc_once(obj, a) ==
  LET s1 == setattr(obj, "name", a.name)
      s2 == IF hasattr(obj, "river_conc") THEN s1 ELSE setattr(s1, "river_conc", a.river_conc)
      s3 == setattr(s2, "removal_rate", a.removal_rate)
      s4 == setattr(s3, "conc_ini", ndarray(<<1>>, <<a.conc_ini>>))
      s5 == setattr(s4, "time_ini", Num(0))
      s6 == setattr(s5, "time_end", a.run_duration)
  IN IF obj.cls = "onebox" THEN s6 ELSE setattr(s6, "max_step", a.maxstep)

store_arguments(obj, a) ==
  LET s1 == setattr(obj, "name", a.name)
      s2 == setattr(s1, "river_conc", a.river_conc)
      s3 == setattr(s2, "removal_rate", a.removal_rate)
      s4 == setattr(s3, "conc_ini", ndarray(<<1>>, <<a.conc_ini>>))
      s5 == setattr(s4, "time_ini", Num(0))
      s6 == setattr(s5, "time_end", a.run_duration)
  IN IF obj.cls = "onebox" THEN s6 ELSE setattr(s6, "max_step", a.maxstep)

\* Faulty variant: max_step is stored but not handed to solve_ivp.
max_step_option_left_out(obj) == PosInf

\* the max_step integrate_tracer hands to solve_ivp
max_step_option(obj) == IF obj.cls = "onebox" THEN PosInf ELSE obj.max_step

----------------------------------------------------------------------------
(* solve_ivp *)

NoSolver ==
  [t |-> Num(0), y |-> Num(0), f |-> Num(0), ts |-> <<>>, ys |-> <<>>,
   status |-> "none", t_bound |-> Num(0), max_step |-> PosInf, direction |-> 1,
   evals |-> <<>>]

\* one call of the callback by the solver
Evaluation(obj, time, conc) ==
  [time |-> time, conc |-> conc, dconcdt |-> ocean_onebox_equations(obj, time, conc)]

\* solve_ivp raises ValueError unless max_step is positive
max_step_valid(max_step) ==
  max_step = PosInf \/ (IsFinite(max_step) /\ max_step.n > 0)

\* the solver is set up at t0 with y0 and evaluates the callback there
solve_ivp_begin(obj, t0, tf, y0, max_step) ==
  [t |-> t0, y |-> y0.data[1], f |-> ocean_onebox_equations(obj, t0, y0.data[1]),
   ts |-> <<t0>>, ys |-> <<y0.data[1]>>, status |-> "running",
   t_bound |-> tf, max_step |-> max_step,
   direction |-> IF Less(tf, t0) THEN -1 ELSE 1,
   evals |-> <<Evaluation(obj, t0, y0.data[1])>>]

\* the sizes the solver may give its next step: at most max_step, and
\* clipped to what is left of the interval
step_sizes(s) ==
  LET remaining == AbsR(Sub(s.t_bound, s.t))
  IN {IF Less(remaining, h) THEN remaining ELSE h :
        h \in {x \in StepSizes : s.max_step = PosInf \/ Leq(x, s.max_step)}}

\* where a step of size h leads
step_target(s, h) ==
  [t |-> Add(s.t, Mul(Num(s.direction), h)),
   y |-> Add(s.y, Mul(Mul(Num(s.direction), h), s.f))]

\* the solver's state after the step to `new`, where the callback gave f_new.
\* A non-finite value fails the step (the error norm is nan, the step size
\* shrinks below the spacing of floats) and leaves the arrays as they are.
step_outcome(s, new, f_new) ==
  IF ~IsFinite(new.y) \/ ~IsFinite(f_new.dconcdt)
  THEN [s EXCEPT !.status = "failed", !.evals = Append(@, f_new)]
  ELSE [s EXCEPT !.t = new.t, !.y = new.y, !.f = f_new.dconcdt,
                 !.ts = Append(@, new.t), !.ys = Append(@, new.y),
                 !.evals = Append(@, f_new),
                 !.status = IF new.t = s.t_bound THEN "finished" ELSE "running"]

\* one step of the solver, calling back into the instance.  An empty
\* interval finishes at once, with t_bound appended.
solver_step(obj, s, h) ==
  IF s.t = s.t_bound
  THEN [s EXCEPT !.ts = Append(@, s.t), !.ys = Append(@, s.y), !.status = "finished"]
  ELSE LET new == step_target(s, h)
       IN step_outcome(s, new, Evaluation(obj, new.t, new.y))

\* every way solve_ivp can run to its end from the solver's state
RECURSIVE solve_ivp_runs(_, _)
solve_ivp_runs(obj, s) ==
  IF s.status # "running" THEN {s}
  ELSE UNION {solve_ivp_runs(obj, solver_step(obj, s, h)) : h \in step_sizes(s)}

\* solve_ivp(self.ocean_onebox_equations, (self.time_ini, self.time_end),
\*           self.conc_ini, method='RK45'[, max_step=self.max_step])
solve_ivp(obj) ==
  solve_ivp_runs(obj, solve_ivp_begin(obj, obj.time_ini, obj.time_end, obj.conc_ini,
                                      max_step_option(obj)))

----------------------------------------------------------------------------
(* What integrate_tracer gives its caller, and figures *)

NoResult == [kind |-> "none", exc |-> "", time |-> NoObject, tracer_conc |-> NoObject]

Returned(time, tracer_conc) ==
  [kind |-> "returned", exc |-> "", time |-> time, tracer_conc |-> tracer_conc]

Raised(exc) ==
  [kind |-> "raised", exc |-> exc, time |-> NoObject, tracer_conc |-> NoObject]

NoArgs ==
  [name |-> "", river_conc |-> Num(0), removal_rate |-> Num(0), conc_ini |-> Num(0),
   run_duration |-> Num(0), maxstep |-> PosInf]

NoFigure == [time |-> NoObject, tracer_conc |-> NoObject, name |-> "", n |-> 0]

\* Faulty variant: the figure is titled with the default name, not self.name.
plot_timeserie_default_title(obj, n) ==
  [time |-> obj.time, tracer_conc |-> obj.tracer_conc, name |-> "Calcium", n |-> n + 1]

\* plot_timeserie: one more figure, of self.time and self.tracer_conc,
\* titled with self.name
plot_timeserie(obj, n) ==
  [time |-> obj.time, tracer_conc |-> obj.tracer_conc, name |-> obj.name, n |-> n + 1]

\* no call is followed statement by statement
NoCalls == <<>>

----------------------------------------------------------------------------
(* integrate_tracer, second part: the solver's arrays are stored *)

\* self.time = solver['t']
store_time(obj, h, s) == setattr(obj, "time", FreshId(h))

\* Faulty variant: the time samples are written into the array self.time
\* already names, when there is one.
heap_with_time_in_place(h, s) ==
  IF hasattr(self, "time")
  THEN [h EXCEPT ![self.time] = ndarray(<<Len(s.ts)>>, s.ts)]
  ELSE new_array(h, ndarray(<<Len(s.ts)>>, s.ts))

heap_with_time(h, s) == new_array(h, ndarray(<<Len(s.ts)>>, s.ts))

\* self.tracer_conc = solver['y'].squeeze()
store_tracer_conc(obj, h, s) == setattr(obj, "tracer_conc", FreshId(h))

heap_with_tracer_conc(h, s) == new_array(h, squeeze(ndarray(<<1, Len(s.ys)>>, s.ys)))

\* both assignments
store_results(obj, h, s) ==
  store_tracer_conc(store_time(obj, h, s), heap_with_time(h, s), s)

heap_with_results(h, s) == heap_with_tracer_conc(heap_with_time(h, s), s)

----------------------------------------------------------------------------
(* The state machine *)

Init ==
  /\ \E cls \in Classes, volume_ocean \in Volumes, river_flux \in Fluxes :
       self = construct(cls, volume_ocean, river_flux)
  /\ args = NoArgs
  /\ solver = NoSolver
  /\ result = NoResult
  /\ heap = EmptyHeap
  /\ figure = NoFigure
  /\ attempts = <<>>
  /\ radiation = NoRadiation
  /\ N = NotComputed
  /\ calls = NoCalls

\* Faulty variant: a failed integration is tried once more.
solver_invocations_retry(outcome) ==
  IF outcome = "failed" THEN <<outcome, outcome>> ELSE <<outcome>>

\* integrate_tracer holds one solve_ivp statement, in no loop and in no try
\* block: whatever way the invocation ends, it is the only one of the call
solver_invocations(outcome) == <<outcome>>

\* the rest of integrate_tracer once solve_ivp has returned s: the arrays
\* are stored, plotted and returned
Finish(obj, s) ==
  /\ self' = store_results(obj, heap, s)
  /\ heap' = heap_with_results(heap, s)
  /\ figure' = plot_timeserie(self', 0)
  /\ result' = Returned(self'.time, self'.tracer_conc)
  /\ solver' = s
  /\ attempts' = solver_invocations(s.status)

\* integrate_tracer ends in solve_ivp's ValueError
Abort(obj) ==
  /\ self' = obj
  /\ heap' = heap
  /\ figure' = [figure EXCEPT !.n = 0]
  /\ result' = Raised("ValueError")
  /\ solver' = NoSolver
  /\ attempts' = solver_invocations("raised")

\* a call of integrate_tracer, with obj the instance after the arguments
\* have been stored
Integrate(obj) ==
  IF max_step_valid(max_step_option(obj))
  THEN \E s \in solve_ivp(obj) : Finish(obj, s)
  ELSE Abort(obj)

IntegrateTracer(a) ==
  /\ DOMAIN heap \subseteq Refs(self)
  /\ args' = a
  /\ Integrate(store_arguments(self, a))
  /\ UNCHANGED <<radiation, N, calls>>

\* the caller lets go of the arrays of the call before the last: arrays that
\* nothing refers to any more are freed
Collect ==
  /\ ~(DOMAIN heap \subseteq Refs(self))
  /\ heap' = collect(heap, Refs(self))
  /\ UNCHANGED <<self, args, solver, result, figure, attempts, radiation, N, calls>>

\* the argument fields of integrate_tracer
Keywords == {"name", "river_conc", "removal_rate", "conc_ini", "run_duration", "maxstep"}

\* the values a caller leaves alone
Defaults(cls) ==
  [name |-> "Calcium", river_conc |-> Num(4),
   removal_rate |-> Rat(1, timescale_variation_river), conc_ini |-> Num(0),
   run_duration |-> Num(MaxDurationUnits * QuarterPeriod),
   maxstep |-> IF cls = "onebox" THEN PosInf ELSE Num(QuarterPeriod)]

\* a caller overrides at most MaxOverrides keyword arguments
Arguments(cls) ==
  {a \in [name : Names, river_conc : RiverConcs, removal_rate : RemovalRates,
          conc_ini : ConcInis, run_duration : RunDurations, maxstep : MaxStepArgs(cls)] :
     Cardinality({k \in Keywords : a[k] # Defaults(cls)[k]}) <= MaxOverrides}

Next ==
  \/ \E a \in Arguments(self.cls) : IntegrateTracer(a)
  \/ Collect

Spec == Init /\ [][Next]_vars

----------------------------------------------------------------------------
(* One call on a new instance, with any arguments *)

\* the initial concentrations of a single call: those above and the steady
\* state of the largest inputs, 3 * 4 / (2 / 100000)
CallConcInis == ConcInis \cup {Num(600000)}

\* every combination of keyword arguments
AllArguments(cls) ==
  [name : Names, river_conc : RiverConcs, removal_rate : RemovalRates,
   conc_ini : CallConcInis, run_duration : RunDurations, maxstep : MaxStepArgs(cls)]

\* boxmodel = onebox(...), about to be called with args
InitCall ==
  /\ \E cls \in Classes, volume_ocean \in Volumes, river_flux \in Fluxes :
       /\ self = construct(cls, volume_ocean, river_flux)
       /\ args \in AllArguments(cls)
  /\ solver = NoSolver
  /\ result = NoResult
  /\ heap = EmptyHeap
  /\ figure = NoFigure
  /\ attempts = <<>>
  /\ radiation = NoRadiation
  /\ N = NotComputed
  /\ calls = NoCalls

\* boxmodel.integrate_tracer(**args), the first call on the instance
Call ==
  /\ result.kind = "none"
  /\ IntegrateTracer(args)

NextCall == Call

SpecCall == InitCall /\ [][NextCall]_vars

----------------------------------------------------------------------------
(* The runs of the notebook, watched while the solver is at work *)

\* onebox() without arguments: volume_ocean = 1.29e18 m3 and river_flux =
\* 3.7e13 m3/year.  Both are counted in units of 1e16 m3, which leaves the
\* governing equation as it is (it is homogeneous of degree 0 in the two)
\* and lets the products fit the integers of the checker.
DefaultReservoir == construct("onebox", Num(129), Rat(37, 10000))

\* boxmodel.integrate_tracer(run_duration=1e7)
CalciumRun ==
  [name |-> "Calcium", river_conc |-> Num(364000), removal_rate |-> Rat(1, 1000000),
   conc_ini |-> Num(0), run_duration |-> Num(10000000), maxstep |-> PosInf]

\* boxmodel.integrate_tracer(name='Silicon', river_conc=193e3, removal_rate=1./(15e3))
SiliconRun ==
  [name |-> "Silicon", river_conc |-> Num(193000), removal_rate |-> Rat(1, 15000),
   conc_ini |-> Num(0), run_duration |-> Num(1000000), maxstep |-> PosInf]

\* boxmodel.integrate_tracer(name='Phosphorus', river_conc=1300, removal_rate=1./(52e3))
PhosphorusRun ==
  [name |-> "Phosphorus", river_conc |-> Num(1300), removal_rate |-> Rat(1, 52000),
   conc_ini |-> Num(0), run_duration |-> Num(1000000), maxstep |-> PosInf]

NotebookRuns == {CalciumRun, SiliconRun, PhosphorusRun}

\* the concentrations at which the solver is let evaluate the callback: the
\* start, the point where the river input balances the removal, and values
\* below and above it
ProbeConcs(obj) ==
  {Num(0), Num(10460), Num(10440000), Num(15000000),
   Div(Mul(obj.river_flux, obj.river_conc), Mul(obj.removal_rate, obj.volume_ocean))}

\* integrate_tracer has stored the arguments of one of the notebook's runs
\* and has entered solve_ivp, which has evaluated the callback at the start
InitScenario ==
  /\ \E a \in NotebookRuns :
       /\ args = a
       /\ self = store_arguments(DefaultReservoir, a)
  /\ solver = solve_ivp_begin(self, self.time_ini, self.time_end, self.conc_ini,
                              max_step_option(self))
  /\ result = NoResult
  /\ heap = EmptyHeap
  /\ figure = NoFigure
  /\ attempts = <<>>
  /\ radiation = NoRadiation
  /\ N = NotComputed
  /\ calls = NoCalls

\* the solver evaluates self.ocean_onebox_equations(time, conc)
Callback(time, conc) ==
  /\ solver.status = "running"
  /\ Len(solver.evals) < MaxEvaluations
  /\ solver' = [solver EXCEPT !.evals = Append(@, Evaluation(self, time, conc))]
  /\ UNCHANGED <<self, args, result, heap, figure, attempts, radiation, N, calls>>

NextScenario ==
  \E time \in {self.time_ini, self.time_end}, conc \in ProbeConcs(self) :
    Callback(time, conc)

SpecScenario == InitScenario /\ [][NextScenario]_vars

----------------------------------------------------------------------------
(* compute_N applied to a radiation record *)

InitRadiation ==
  /\ self = DefaultReservoir
  /\ args = NoArgs
  /\ solver = NoSolver
  /\ result = NoResult
  /\ heap = EmptyHeap
  /\ figure = NoFigure
  /\ attempts = <<>>
  /\ radiation \in Radiations
  /\ N = NotComputed
  /\ calls = NoCalls

\* N_prof = compute_N(pi_rad)
ComputeN ==
  /\ N = NotComputed
  /\ N' = compute_N(radiation)
  /\ UNCHANGED <<self, args, solver, result, heap, figure, attempts, radiation, calls>>

NextRadiation == ComputeN

SpecRadiation == InitRadiation /\ [][NextRadiation]_vars

----------------------------------------------------------------------------
(* Two calls of integrate_tracer on one instance, statement by statement *)

\* the callers of the two calls
Callers == {1, 2}

\* a call that has not begun
Idle ==
  [pc |-> "idle", args |-> NoArgs, solver |-> NoSolver, plots |-> 0,
   figure |-> NoFigure, result |-> NoResult]

\* the arguments of the calls that are followed statement by statement: the
\* defaults, or the defaults with one other value
StepArguments(cls) ==
  {Defaults(cls),
   [Defaults(cls) EXCEPT !.name = "Silicon"],
   [Defaults(cls) EXCEPT !.river_conc = Num(0)],
   [Defaults(cls) EXCEPT !.removal_rate = Num(0)],
   [Defaults(cls) EXCEPT !.conc_ini = Num(1200000)],
   [Defaults(cls) EXCEPT !.run_duration = Num(QuarterPeriod)]}
  \cup (IF cls = "onebox" THEN {} ELSE {[Defaults(cls) EXCEPT !.maxstep = Num(0)]})

InitSteps ==
  /\ \E cls \in Classes, volume_ocean \in Volumes :
       self = construct(cls, volume_ocean, Num(3))
  /\ args = NoArgs
  /\ solver = NoSolver
  /\ result = NoResult
  /\ heap = EmptyHeap
  /\ figure = NoFigure
  /\ attempts = <<>>
  /\ radiation = NoRadiation
  /\ N = NotComputed
  /\ calls = [c \in Callers |-> Idle]

\* what the statements of integrate_tracer leave alone
Untouched == UNCHANGED <<args, solver, result, attempts, radiation, N>>

\* caller c calls integrate_tracer with the arguments a
Enter(c, a) ==
  /\ calls[c].pc = "idle"
  /\ calls' = [calls EXCEPT ![c].pc = "arguments", ![c].args = a]
  /\ UNCHANGED <<self, heap, figure>>
  /\ Untouched

\* self.name = name ... self.time_end = run_duration (and self.max_step)
StoreArguments(c) ==
  /\ calls[c].pc = "arguments"
  /\ self' = store_arguments(self, calls[c].args)
  /\ calls' = [calls EXCEPT ![c].pc = "solve_ivp"]
  /\ UNCHANGED <<heap, figure>>
  /\ Untouched

\* solver = spint.solve_ivp(...): the arguments of solve_ivp are read from
\* the instance; solve_ivp raises, or sets out and evaluates the callback at
\* the start
InvokeSolver(c) ==
  /\ calls[c].pc = "solve_ivp"
  /\ calls' =
       IF max_step_valid(max_step_option(self))
       THEN [calls EXCEPT ![c].pc = "solving",
                          ![c].solver = solve_ivp_begin(self, self.time_ini, self.time_end,
                                                        self.conc_ini, max_step_option(self))]
       ELSE [calls EXCEPT ![c].pc = "done", ![c].result = Raised("ValueError")]
  /\ UNCHANGED <<self, heap, figure>>
  /\ Untouched

\* solve_ivp takes a step, calling back into the instance as it is now; after
\* its last step it returns to integrate_tracer
SolverStep(c) ==
  /\ calls[c].pc = "solving"
  /\ \E h \in step_sizes(calls[c].solver) :
       LET s == solver_step(self, calls[c].solver, h)
       IN calls' = [calls EXCEPT ![c].solver = s,
                                 ![c].pc = IF s.status = "running" THEN "solving"
                                           ELSE "results"]
  /\ UNCHANGED <<self, heap, figure>>
  /\ Untouched

\* self.time = solver['t']; self.tracer_conc = solver['y'].squeeze()
StoreResults(c) ==
  /\ calls[c].pc = "results"
  /\ self' = store_results(self, heap, calls[c].solver)
  /\ heap' = heap_with_results(heap, calls[c].solver)
  /\ calls' = [calls EXCEPT ![c].pc = "plot"]
  /\ UNCHANGED figure
  /\ Untouched

\* self.plot_timeserie()
PlotTimeserie(c) ==
  /\ calls[c].pc = "plot"
  /\ figure' = plot_timeserie(self, calls[c].plots)
  /\ calls' = [calls EXCEPT ![c].pc = "return", ![c].plots = @ + 1, ![c].figure = figure']
  /\ UNCHANGED <<self, heap>>
  /\ Untouched

\* return self.time, self.tracer_conc
Return(c) ==
  /\ calls[c].pc = "return"
  /\ calls' = [calls EXCEPT ![c].pc = "done",
                            ![c].result = Returned(self.time, self.tracer_conc)]
  /\ UNCHANGED <<self, heap, figure>>
  /\ Untouched

\* the statements of a call that has been entered
Statement(c) ==
  \/ StoreArguments(c)
  \/ InvokeSolver(c)
  \/ SolverStep(c)
  \/ StoreResults(c)
  \/ PlotTimeserie(c)
  \/ Return(c)

\* the calls before caller c's are over and the calls after it have not
\* begun: the cells of the notebook run one after the other
InTurn(c) ==
  \A d \in Callers \ {c} : calls[d].pc = (IF d < c THEN "done" ELSE "idle")

NextSequential ==
  \E c \in Callers :
    \/ \E a \in StepArguments(self.cls) : InTurn(c) /\ Enter(c, a)
    \/ Statement(c)

\* one caller: the second call begins when the first is over
SpecSequential == InitSteps /\ [][NextSequential]_vars

\* the arguments of the calls of two threads
ThreadArguments(cls) ==
  {Defaults(cls), [Defaults(cls) EXCEPT !.river_conc = Num(0)],
   [Defaults(cls) EXCEPT !.name = "Silicon", !.run_duration = Num(QuarterPeriod)]}

NextThreads ==
  \E c \in Callers :
    \/ \E a \in ThreadArguments(self.cls) : Enter(c, a)
    \/ Statement(c)

\* two callers, each in a thread of its own: a call may begin while the
\* other is under way
SpecThreads == InitSteps /\ [][NextThreads]_vars

----------------------------------------------------------------------------
(* Vocabulary of the properties *)

\* integrate_tracer has been called at least once
Called == result.kind # "none"

\* the arrays the last call returned, when it returned
ReturnedTime == heap[result.time]

ReturnedConc == heap[result.tracer_conc]

\* the steady state river_flux * river_conc / (removal_rate * volume_ocean)
SteadyState(obj) ==
  Div(Mul(obj.river_flux, obj.river_conc), Mul(obj.removal_rate, obj.volume_ocean))

\* an earlier call returned arrays that are still alive, and they differ from
\* the arrays of the last call
EarlierArraysDiffer ==
  /\ result.kind = "returned"
  /\ \E id \in DOMAIN heap \ Refs(self) :
       /\ heap[id] # ReturnedTime
       /\ heap[id] # ReturnedConc

\* the instance as __init__ leaves it, with the reservoir of self
Fresh == construct(self.cls, self.volume_ocean, self.river_flux)

----------------------------------------------------------------------------
(* C1 *)

\* C1: every evaluation of onebox.ocean_onebox_equations(t, C) gives
\* (river_flux * river_conc - removal_rate * C * volume_ocean) / volume_ocean
\* (stated without the division: dconcdt * volume_ocean equals the numerator;
\* a zero volume gives a non-finite value), and the value is the same at
\* every other time.
C1_ConstantEquation ==
  self.cls = "onebox" =>
    \A i \in 1..Len(solver.evals) :
      LET e == solver.evals[i]
      IN /\ self.volume_ocean.n # 0 =>
              /\ IsFinite(e.dconcdt)
              /\ Mul(e.dconcdt, self.volume_ocean)
                   = Sub(Mul(self.river_flux, self.river_conc),
                         Mul(Mul(self.removal_rate, e.conc), self.volume_ocean))
         /\ self.volume_ocean.n = 0 => ~IsFinite(e.dconcdt)
         /\ \A t \in RunDurations : onebox_equations(self, t, e.conc) = e.dconcdt

\* the solver evaluated the constant equation after t = 0 and got a slope
\* that is not zero
C1_Witness ==
  /\ self.cls = "onebox"
  /\ \E i \in 1..Len(solver.evals) :
       /\ solver.evals[i].time # Num(0)
       /\ IsFinite(solver.evals[i].dconcdt)
       /\ solver.evals[i].dconcdt.n # 0
       /\ solver.evals[i].conc.n # 0

----------------------------------------------------------------------------
(* C2 *)

\* C2: a call with run_duration > 0 returns time samples that start at 0,
\* end at run_duration and increase strictly.
C2_TimeSamples ==
  (result.kind = "returned" /\ Less(Num(0), args.run_duration)) =>
    LET t == ReturnedTime.data
    IN /\ t[1] = Num(0)
       /\ t[Len(t)] = args.run_duration
       /\ \A i \in 1..(Len(t) - 1) : Less(t[i], t[i + 1])

----------------------------------------------------------------------------
(* C3 *)

\* C3: the returned concentrations are a sequence of the same length as the
\* returned times, one per time sample, also when there is one time sample.
C3_SameLength ==
  result.kind = "returned" =>
    /\ ReturnedConc.shape = ReturnedTime.shape
    /\ Len(ReturnedConc.data) = Len(ReturnedTime.data)

----------------------------------------------------------------------------
(* C4 *)

\* removal_rate < 0, volume_ocean <= 0 or run_duration <= 0
PreconditionViolated ==
  \/ Less(args.removal_rate, Num(0))
  \/ Leq(self.volume_ocean, Num(0))
  \/ Leq(args.run_duration, Num(0))

\* C4: a call that violates a precondition raises InvalidParameterError and
\* the solver is not invoked.
C4_Validation ==
  (Called /\ PreconditionViolated) =>
    /\ result.kind = "raised"
    /\ result.exc = "InvalidParameterError"
    /\ solver.status = "none"

----------------------------------------------------------------------------
(* C5 *)

\* C5: when the solver fails, integrate_tracer raises and returns no arrays.
C5_FailureSurfaces ==
  solver.status = "failed" => result.kind = "raised"

----------------------------------------------------------------------------
(* C6 *)

RunAttributes ==
  {"name", "river_conc", "removal_rate", "conc_ini", "time_ini", "time_end",
   "max_step", "time", "tracer_conc"}

----------------------------------------------------------------------------
(* C7 *)

\* C7: whatever calls came before, the arrays a call returns are arrays the
\* same call returns on a freshly constructed instance with the same
\* reservoir: the solver ended as one of its runs on the fresh instance, and
\* the returned arrays are the arrays of that run.
C7_Independent ==
  result.kind = "returned" =>
    /\ solver \in solve_ivp(store_arguments(Fresh, args))
    /\ ReturnedTime = ndarray(<<Len(solver.ts)>>, solver.ts)
    /\ ReturnedConc = squeeze(ndarray(<<1, Len(solver.ys)>>, solver.ys))

\* the last call followed a call that returned other arrays
C7_Witness ==
  /\ EarlierArraysDiffer
  /\ solver.status = "finished"
  /\ Len(solver.ts) = 3

----------------------------------------------------------------------------
(* C8 *)

\* C8: no step of either class changes volume_ocean or river_flux.  Every
\* step is a whole call of integrate_tracer, with the evaluations of
\* ocean_onebox_equations the solver makes and the call of plot_timeserie in
\* it, or the release of arrays the caller no longer names.
C8_ReservoirImmutable ==
  [][/\ self'.volume_ocean = self.volume_ocean
     /\ self'.river_flux = self.river_flux]_vars

\* two calls have returned on an instance of the sinusoidal class
C8_Witness ==
  /\ self.cls = "onebox_sinusoid_river"
  /\ EarlierArraysDiffer
  /\ self.volume_ocean = Num(2)
  /\ self.river_flux = Num(3)

----------------------------------------------------------------------------
(* C9 *)

\* C9: a step changes no array that is alive before and after it, and a call
\* that returns leaves the arrays of the call before it alive and returns
\* array objects that did not exist before.
C9_ArraysKept ==
  [][/\ \A id \in DOMAIN heap \cap DOMAIN heap' : heap'[id] = heap[id]
     /\ (result' # result /\ result'.kind = "returned") =>
          /\ DOMAIN heap \subseteq DOMAIN heap'
          /\ result'.time \notin DOMAIN heap
          /\ result'.tracer_conc \notin DOMAIN heap
    ]_vars

\* the arrays of two calls are alive, and they differ
C9_Witness ==
  /\ EarlierArraysDiffer
  /\ Cardinality(DOMAIN heap) = 4

----------------------------------------------------------------------------
(* C10 *)

\* the run is one of the constant model with removal_rate > 0 and
\* volume_ocean > 0 that the solver finished
ConstantDecayRun ==
  /\ result.kind = "returned"
  /\ self.cls = "onebox"
  /\ solver.status = "finished"
  /\ Less(Num(0), self.removal_rate)
  /\ Less(Num(0), self.volume_ocean)

----------------------------------------------------------------------------
(* C11 *)

\* C11: in a run of the constant model with removal_rate > 0 (and
\* volume_ocean > 0, so that the steady state exists) every sample after the
\* first is larger than the one before it and at most the steady state when
\* conc_ini is below the steady state, and smaller than the one before it and
\* at least the steady state when conc_ini is above it.
C11_MonotoneNoOvershoot ==
  ConstantDecayRun =>
    LET c == ReturnedConc.data
        eq == SteadyState(self)
    IN /\ Less(args.conc_ini, eq) =>
            \A i \in 1..(Len(c) - 1) : Less(c[i], c[i + 1]) /\ Leq(c[i + 1], eq)
       /\ Less(eq, args.conc_ini) =>
            \A i \in 1..(Len(c) - 1) : Less(c[i + 1], c[i]) /\ Leq(eq, c[i + 1])

----------------------------------------------------------------------------
(* C12 *)

\* the run has no source and no sink: removal_rate = 0, river_flux = 0 and
\* volume_ocean > 0
NoSourceNoSink ==
  /\ result.kind = "returned"
  /\ self.removal_rate = Num(0)
  /\ self.river_flux = Num(0)
  /\ Less(Num(0), self.volume_ocean)

\* C12: with removal_rate = 0, river_flux = 0 and volume_ocean > 0 the
\* solver finishes and every concentration sample equals conc_ini, one per
\* time sample, whatever conc_ini, river_conc and run_duration are.
C12_Constant ==
  NoSourceNoSink =>
    /\ solver.status = "finished"
    /\ Len(ReturnedConc.data) = Len(ReturnedTime.data)
    /\ \A i \in 1..Len(ReturnedConc.data) : ReturnedConc.data[i] = args.conc_ini

\* a run of three samples without source and sink that starts from a
\* concentration that is not zero, with a river concentration that is not
\* zero
C12_Witness ==
  /\ NoSourceNoSink
  /\ self.cls = "onebox"
  /\ args.conc_ini = Num(1200000)
  /\ args.river_conc = Num(4)
  /\ Len(ReturnedConc.data) = 3

----------------------------------------------------------------------------
(* C13 *)

\* a returned run of the constant model whose steady state exists:
\* removal_rate # 0 and volume_ocean > 0
SteadyStateExists ==
  /\ result.kind = "returned"
  /\ self.cls = "onebox"
  /\ self.removal_rate # Num(0)
  /\ Less(Num(0), self.volume_ocean)

\* C13: the constant equation gives 0 wherever the solver evaluates it at the
\* steady state, and a run that starts at the steady state finishes with
\* every sample equal to the steady state.
C13_FixedPoint ==
  SteadyStateExists =>
    /\ \A i \in 1..Len(solver.evals) :
         solver.evals[i].conc = SteadyState(self) => solver.evals[i].dconcdt = Num(0)
    /\ args.conc_ini = SteadyState(self) =>
         /\ solver.status = "finished"
         /\ \A i \in 1..Len(ReturnedConc.data) : ReturnedConc.data[i] = SteadyState(self)

\* a run of three samples that starts at a steady state that is not zero
C13_Witness ==
  /\ SteadyStateExists
  /\ args.conc_ini = SteadyState(self)
  /\ args.conc_ini = Num(600000)
  /\ Len(ReturnedConc.data) = 3
  /\ Len(solver.evals) = 3

----------------------------------------------------------------------------
(* C14 *)

\* the time is a whole number of quarter periods of the forcing
OnQuarterPeriod(time) == Div(time, Num(QuarterPeriod)).d = 1

\* sin(2 * pi * time / timescale_variation_river) at a whole number of
\* quarter periods: 0, 1, 0, -1, 0, ...
SinQuarter(time) ==
  LET q == Floor(Div(time, Num(QuarterPeriod))) % 4
  IN CASE q = 0 -> 0 [] q = 1 -> 1 [] q = 2 -> 0 [] q = 3 -> -1

\* C14: every evaluation of onebox_sinusoid_river.ocean_onebox_equations(t, C)
\* gives (river_flux * v - removal_rate * C * volume_ocean) / volume_ocean
\* with v = river_conc + (river_conc / 2) * sin(2 * pi * t / 1e5) (stated
\* without the division, at the times the solver evaluates it, which are
\* whole numbers of quarter periods; a zero volume gives a non-finite value).
C14_SinusoidEquation ==
  self.cls = "onebox_sinusoid_river" =>
    \A i \in 1..Len(solver.evals) :
      LET e == solver.evals[i]
          v == Add(self.river_conc,
                   Mul(Div(self.river_conc, Num(2)), Num(SinQuarter(e.time))))
      IN /\ OnQuarterPeriod(e.time)
         /\ (self.volume_ocean.n # 0 /\ IsFinite(e.conc)) =>
              /\ IsFinite(e.dconcdt)
              /\ Mul(e.dconcdt, self.volume_ocean)
                   = Sub(Mul(self.river_flux, v),
                         Mul(Mul(self.removal_rate, e.conc), self.volume_ocean))
         /\ self.volume_ocean.n = 0 => ~IsFinite(e.dconcdt)

\* the solver evaluated the sinusoidal equation at a quarter period, where
\* the sine is 1, with river input and a concentration that is not zero
C14_Witness ==
  /\ self.cls = "onebox_sinusoid_river"
  /\ result.kind = "returned"
  /\ self.river_flux = Num(3)
  /\ self.river_conc = Num(4)
  /\ \E i \in 1..Len(solver.evals) :
       /\ SinQuarter(solver.evals[i].time) = 1
       /\ IsFinite(solver.evals[i].dconcdt)
       /\ solver.evals[i].conc.n # 0

----------------------------------------------------------------------------
(* C15 *)

\* C15: in every returned run of the sinusoidal model the solver ran with
\* max_step = maxstep, and two consecutive time samples differ by at most
\* maxstep.
C15_MaxStepBounds ==
  (self.cls = "onebox_sinusoid_river" /\ result.kind = "returned") =>
    /\ solver.max_step = args.maxstep
    /\ \A i \in 1..(Len(ReturnedTime.data) - 1) :
         Leq(AbsR(Sub(ReturnedTime.data[i + 1], ReturnedTime.data[i])), args.maxstep)

\* a run over two quarter periods with maxstep a quarter period: three time
\* samples, a quarter period apart, where the solver takes steps of two
\* quarter periods when nothing bounds them
C15_Witness ==
  /\ self.cls = "onebox_sinusoid_river"
  /\ result.kind = "returned"
  /\ args.maxstep = Num(QuarterPeriod)
  /\ args.run_duration = Num(2 * QuarterPeriod)
  /\ Num(2 * QuarterPeriod) \in StepSizes
  /\ ReturnedTime.data = <<Num(0), Num(QuarterPeriod), Num(2 * QuarterPeriod)>>

----------------------------------------------------------------------------
(* C16 *)

\* C16: whenever integrate_tracer of the sinusoidal model invokes the solver,
\* the solver's max_step is below the period of the river forcing.
C16_BelowPeriod ==
  (self.cls = "onebox_sinusoid_river" /\ solver.status # "none") =>
    Less(solver.max_step, Num(timescale_variation_river))

----------------------------------------------------------------------------
(* C17 *)

\* scenario 1: the default reservoir with the arguments of the Calcium run,
\* in a run that is under way
ScenarioOne ==
  /\ args = CalciumRun
  /\ self = store_arguments(DefaultReservoir, CalciumRun)
  /\ solver.status = "running"

\* the right-hand side drives the concentration towards the steady state
\* river_flux * river_conc / (removal_rate * volume_ocean): it is positive
\* below it, zero at it and negative above it
DrivenToSteadyState ==
  \A i \in 1..Len(solver.evals) :
    LET e == solver.evals[i]
    IN /\ IsFinite(e.dconcdt)
       /\ Sub(e.conc, SteadyState(self)).n < 0 <=> e.dconcdt.n > 0
       /\ e.conc = SteadyState(self) <=> e.dconcdt = Num(0)

----------------------------------------------------------------------------
(* C20 *)

\* C20: before the first call the solver has not been invoked; after a call
\* the solver has been invoked once in that call, and the call ended the way
\* that invocation ended: it raised when the invocation raised, and it
\* returned when the invocation finished or failed.
C20_OneAttempt ==
  /\ ~Called => attempts = <<>>
  /\ Called =>
       /\ Len(attempts) = 1
       /\ attempts[1] = (IF result.kind = "raised" THEN "raised" ELSE solver.status)
       /\ attempts[1] \in {"finished", "failed", "raised"}

\* a call whose only solver invocation failed
C20_Witness ==
  /\ Called
  /\ attempts = <<"failed">>
  /\ solver.status = "failed"

----------------------------------------------------------------------------
(* C21 *)

\* the instance as the same call leaves it for the solver when only its name
\* argument is n
Renamed(n) == store_arguments(self, [args EXCEPT !.name = n])

\* C21: a call that differs from the last call in its name argument only
\* ends the same way: it raises when the last call raised, and otherwise the
\* solver has the same runs, so the call returns the time and concentration
\* samples the last call returned.
C21_NameInformational ==
  \A n \in Names :
    /\ result.kind = "raised" => ~max_step_valid(max_step_option(Renamed(n)))
    /\ result.kind = "returned" =>
         /\ max_step_valid(max_step_option(Renamed(n)))
         /\ solve_ivp(Renamed(n)) = solve_ivp(Renamed(args.name))
         /\ \E s \in solve_ivp(Renamed(n)) :
              /\ ndarray(<<Len(s.ts)>>, s.ts) = ReturnedTime
              /\ squeeze(ndarray(<<1, Len(s.ys)>>, s.ys)) = ReturnedConc

\* a call named Silicon has returned three samples of a concentration that
\* changes, and a call named Calcium is another call
C21_Witness ==
  /\ result.kind = "returned"
  /\ args.name = "Silicon"
  /\ "Calcium" \in Names
  /\ self.cls = "onebox"
  /\ Len(ReturnedConc.data) = 3
  /\ ReturnedConc.data[3] # ReturnedConc.data[1]
  /\ self.removal_rate # Num(0)

----------------------------------------------------------------------------
(* C22 *)

\* the radiation record with the up-going and the down-going fluxes exchanged
Exchanged(rad) ==
  [lw_flxd |-> rad.lw_flxu, lw_flxu |-> rad.lw_flxd,
   sw_flxd |-> rad.sw_flxu, sw_flxu |-> rad.sw_flxd]

\* C22: at every level compute_N gives (lw_flxd - lw_flxu) + (sw_flxd -
\* sw_flxu); for the record with up and down exchanged it gives the negated
\* value, and it gives 0 where the up-going fluxes equal the down-going ones.
C22_NetDownward ==
  N # NotComputed =>
    /\ DOMAIN N = 1..Levels
    /\ \A i \in 1..Levels :
         /\ N[i] = Add(Sub(radiation.lw_flxd[i], radiation.lw_flxu[i]),
                       Sub(radiation.sw_flxd[i], radiation.sw_flxu[i]))
         /\ compute_N(Exchanged(radiation))[i] = Neg(N[i])
         /\ (/\ radiation.lw_flxd[i] = radiation.lw_flxu[i]
             /\ radiation.sw_flxd[i] = radiation.sw_flxu[i]) => N[i] = Num(0)

\* compute_N has returned a profile that is downward at one level, where the
\* shortwave part is downward and the longwave part upward, and zero at
\* another where up and down are equal and not zero
C22_Witness ==
  /\ N # NotComputed
  /\ \E i \in 1..Levels :
       /\ N[i] = Num(1)
       /\ radiation.sw_flxd[i] = Num(3)
       /\ radiation.sw_flxu[i] = Num(0)
       /\ radiation.lw_flxd[i] = Num(1)
       /\ radiation.lw_flxu[i] = Num(3)
  /\ \E i \in 1..Levels :
       /\ N[i] = Num(0)
       /\ radiation.lw_flxd[i] = Num(3)
       /\ radiation.lw_flxu[i] = Num(3)
       /\ radiation.sw_flxu[i] = Num(1)

----------------------------------------------------------------------------
(* C23 *)

\* the time a whole number of half periods of the river forcing later
HalfPeriodsLater(time, k) == Add(time, Num(k * 2 * QuarterPeriod))

\* C23: whatever the reservoir and the arguments of the call are (maxstep and
\* run_duration among them), the right-hand side of the sinusoidal model at
\* (t, C) is the same one period of 1e5 years later, and it is another half a
\* period later wherever the river concentration is off its mean, so no
\* shorter time of a quarter or half of 1e5 years is a period.
C23_FixedPeriod ==
  self.cls = "onebox_sinusoid_river" =>
    \A i \in 1..Len(solver.evals) :
      LET e == solver.evals[i]
      IN /\ sinusoid_equations(self, HalfPeriodsLater(e.time, 2), e.conc) = e.dconcdt
         /\ (/\ IsFinite(e.dconcdt)
             /\ SinQuarter(e.time) # 0
             /\ Mul(self.river_flux, self.river_conc) # Num(0)) =>
              sinusoid_equations(self, HalfPeriodsLater(e.time, 1), e.conc) # e.dconcdt

\* a run of the sinusoidal model over half a period, with maxstep a quarter
\* period, in which the solver evaluated the equation where the river
\* concentration is at its largest
C23_Witness ==
  /\ self.cls = "onebox_sinusoid_river"
  /\ result.kind = "returned"
  /\ args.run_duration = Num(2 * QuarterPeriod)
  /\ args.maxstep = Num(QuarterPeriod)
  /\ \E i \in 1..Len(solver.evals) :
       /\ SinQuarter(solver.evals[i].time) = 1
       /\ IsFinite(solver.evals[i].dconcdt)
       /\ Mul(self.river_flux, self.river_conc) # Num(0)
       /\ sinusoid_equations(self, HalfPeriodsLater(solver.evals[i].time, 2),
                             solver.evals[i].conc) = solver.evals[i].dconcdt

----------------------------------------------------------------------------
(* C24 *)

\* the instance as __init__ left it, carrying the arguments of caller c's call
\* and nothing else
OwnParameters(c) == store_arguments(Fresh, calls[c].args)

\* caller c's call has stored its arguments and has not returned
PastArguments(c) == calls[c].pc \in {"solve_ivp", "solving", "results", "plot", "return"}

\* C24: when the calls run one after the other, a call that is about to
\* invoke the solver, or has invoked it and has not returned, finds every
\* parameter attribute of the instance set to its own argument, and every
\* evaluation of the right-hand side in the call gives the value computed
\* from the river_conc and removal_rate of that call, whatever an earlier
\* call left on the instance.
C24_OwnParameters ==
  \A c \in Callers :
    /\ PastArguments(c) =>
         \A a \in DOMAIN OwnParameters(c) : self[a] = OwnParameters(c)[a]
    /\ \A i \in 1..Len(calls[c].solver.evals) :
         LET e == calls[c].solver.evals[i]
         IN e.dconcdt = ocean_onebox_equations(OwnParameters(c), e.time, e.conc)

\* the second call runs with another river concentration than the first,
\* and the solver has evaluated the right-hand side in it, with a value the
\* parameters of the first call do not give
C24_Witness ==
  /\ calls[1].pc = "done"
  /\ calls[1].result.kind = "returned"
  /\ calls[2].pc = "results"
  /\ calls[2].args.river_conc # calls[1].args.river_conc
  /\ Len(calls[2].solver.evals) = 3
  /\ IsFinite(calls[2].solver.evals[3].dconcdt)
  /\ calls[2].solver.evals[3].dconcdt
       # ocean_onebox_equations(OwnParameters(1), calls[2].solver.evals[3].time,
                                calls[2].solver.evals[3].conc)

----------------------------------------------------------------------------
(* C25 *)

\* C25: after a call has returned or raised, the run parameters stored on
\* the instance are the arguments of that call, and the arrays stored on the
\* instance, when there are any, are the arrays that call returned.
C25_SameCall ==
  Called =>
    /\ self.name = args.name
    /\ self.river_conc = args.river_conc
    /\ self.removal_rate = args.removal_rate
    /\ self.conc_ini = ndarray(<<1>>, <<args.conc_ini>>)
    /\ self.time_end = args.run_duration
    /\ (hasattr(self, "time") \/ hasattr(self, "tracer_conc")) =>
         /\ result.kind = "returned"
         /\ self.time = result.time
         /\ self.tracer_conc = result.tracer_conc

----------------------------------------------------------------------------
(* C26 *)

\* the arrays of the solver of caller c's call
SolverTime(c) == ndarray(<<Len(calls[c].solver.ts)>>, calls[c].solver.ts)

SolverConc(c) == squeeze(ndarray(<<1, Len(calls[c].solver.ys)>>, calls[c].solver.ys))

\* C26: when the calls run one after the other, a call has rendered no
\* figure before its plot statement and one figure from then on, so a call
\* that returned has rendered exactly one and a call that raised none; when
\* the figure is rendered the solver is over and the figure shows the arrays
\* of the solver of this call, stored on the instance, and the name of this
\* call; these are the arrays the call then returns.
C26_OnePlot ==
  \A c \in Callers :
    /\ calls[c].plots =
         (IF calls[c].pc = "return" \/ calls[c].result.kind = "returned" THEN 1 ELSE 0)
    /\ calls[c].plots = 1 =>
         /\ calls[c].solver.status \in {"finished", "failed"}
         /\ calls[c].figure.n = 1
         /\ calls[c].figure.name = calls[c].args.name
         /\ heap[calls[c].figure.time] = SolverTime(c)
         /\ heap[calls[c].figure.tracer_conc] = SolverConc(c)
         /\ calls[c].pc = "return" =>
              /\ calls[c].figure.time = self.time
              /\ calls[c].figure.tracer_conc = self.tracer_conc
         /\ calls[c].pc = "done" =>
              /\ calls[c].figure.time = calls[c].result.time
              /\ calls[c].figure.tracer_conc = calls[c].result.tracer_conc

\* the second call has returned, with another name and other arrays than the
\* first, and its figure is not the figure of the first
C26_Witness ==
  /\ calls[1].result.kind = "returned"
  /\ calls[2].result.kind = "returned"
  /\ calls[1].args.name = "Calcium"
  /\ calls[2].args.name = "Silicon"
  /\ calls[2].figure.name = "Silicon"
  /\ calls[2].figure.time # calls[1].figure.time
  /\ Len(calls[2].solver.ts) = 3

----------------------------------------------------------------------------
(* C27 *)

\* C27: also when the calls of two threads interleave, every evaluation of
\* the right-hand side in a call gives the value computed from the arguments
\* of that call, and a call that returns returns the arrays of a run of the
\* solver with the arguments of that call.
C27_Isolated ==
  \A c \in Callers :
    /\ \A i \in 1..Len(calls[c].solver.evals) :
         LET e == calls[c].solver.evals[i]
         IN e.dconcdt = ocean_onebox_equations(OwnParameters(c), e.time, e.conc)
    /\ calls[c].result.kind = "returned" =>
         \E s \in solve_ivp(OwnParameters(c)) :
           /\ heap[calls[c].result.time] = ndarray(<<Len(s.ts)>>, s.ts)
           /\ heap[calls[c].result.tracer_conc] = squeeze(ndarray(<<1, Len(s.ys)>>, s.ys))

----------------------------------------------------------------------------
(* C28 *)

\* the times at which the river concentration is looked at: every eighth of
\* a period over one period
ForcingTimes == {Num(i * (QuarterPeriod \div 2)) : i \in 0..8}

\* a returned run of the sinusoidal model with river_conc >= 0, river_flux >=
\* 0, removal_rate > 0 and volume_ocean > 0 that starts between 0 and one and
\* a half times the steady state
BoundedStart ==
  /\ result.kind = "returned"
  /\ self.cls = "onebox_sinusoid_river"
  /\ Leq(Num(0), self.river_conc)
  /\ Leq(Num(0), self.river_flux)
  /\ Less(Num(0), self.removal_rate)
  /\ Less(Num(0), self.volume_ocean)
  /\ Leq(Num(0), args.conc_ini)
  /\ Leq(args.conc_ini, Mul(Rat(3, 2), SteadyState(self)))

\* C28: in the sinusoidal model with river_conc >= 0 the river concentration
\* is between river_conc / 2 and 3 * river_conc / 2 at every time looked at
\* and at every time the solver evaluates the equation, so with river_flux >=
\* 0 the source term river_flux * vary_river_conc is not negative; and a run
\* with removal_rate > 0 that starts between 0 and 1.5 * C_eq has every
\* sample between 0 and 1.5 * C_eq.
C28_Bounded ==
  /\ (self.cls = "onebox_sinusoid_river" /\ Called /\ Leq(Num(0), self.river_conc)) =>
       \A t \in ForcingTimes \cup {solver.evals[i].time : i \in 1..Len(solver.evals)} :
         /\ Leq(Div(self.river_conc, Num(2)), vary_river_conc(self, t))
         /\ Leq(vary_river_conc(self, t), Mul(Rat(3, 2), self.river_conc))
         /\ Leq(Num(0), self.river_flux) =>
              Leq(Num(0), Mul(self.river_flux, vary_river_conc(self, t)))
  /\ BoundedStart =>
       \A i \in 1..Len(ReturnedConc.data) :
         /\ Leq(Num(0), ReturnedConc.data[i])
         /\ Leq(ReturnedConc.data[i], Mul(Rat(3, 2), SteadyState(self)))

\* a run that starts at the steady state and is carried above it by the
\* river concentration at its largest, 3 * river_conc / 2
C28_Witness ==
  /\ BoundedStart
  /\ args.conc_ini = SteadyState(self)
  /\ Len(ReturnedConc.data) = 3
  /\ Less(SteadyState(self), ReturnedConc.data[3])
  /\ \E i \in 1..Len(solver.evals) :
       vary_river_conc(self, solver.evals[i].time) = Mul(Rat(3, 2), self.river_conc)

----------------------------------------------------------------------------
(* C29 *)

\* the instance of the other class with the same attributes
Twin(cls) == [self EXCEPT !.cls = cls]

\* the instance of the other class with the same reservoir, as the call with
\* the same arguments leaves it for the solver (max_step, which the constant
\* model does not have, is one period where it is missing)
TwinCall ==
  IF self.cls = "onebox"
  THEN store_arguments(construct("onebox_sinusoid_river", self.volume_ocean, self.river_flux),
                       [args EXCEPT !.maxstep = Num(timescale_variation_river)])
  ELSE store_arguments(construct("onebox", self.volume_ocean, self.river_flux), args)

\* C29: with the same volume_ocean, river_flux, river_conc, removal_rate and
\* C, the right-hand sides of the two models are equal at t = 0, whatever
\* river_conc is, and at every time when river_conc = 0; and a run with
\* river_conc = 0 gives samples that a run of the other model with the same
\* arguments gives too.
C29_SameButForcing ==
  Called =>
    /\ \A i \in 1..Len(solver.evals) :
         LET e == solver.evals[i]
         IN /\ sinusoid_equations(self, Num(0), e.conc) = onebox_equations(self, Num(0), e.conc)
            /\ self.river_conc = Num(0) =>
                 \A t \in ForcingTimes \cup {e.time} :
                   sinusoid_equations(self, t, e.conc) = onebox_equations(self, t, e.conc)
            /\ (self.river_conc = Num(0) \/ e.time = Num(0)) =>
                 e.dconcdt = ocean_onebox_equations(Twin("onebox"), e.time, e.conc)
    /\ (result.kind = "returned" /\ self.river_conc = Num(0)) =>
         \E s \in solve_ivp(TwinCall) : s.ts = solver.ts /\ s.ys = solver.ys

\* a run of the sinusoidal model without river input that decays from a
\* concentration that is not zero, evaluated away from t = 0
C29_Witness ==
  /\ result.kind = "returned"
  /\ self.cls = "onebox_sinusoid_river"
  /\ self.river_conc = Num(0)
  /\ Less(Num(0), self.removal_rate)
  /\ Len(ReturnedConc.data) = 3
  /\ Less(ReturnedConc.data[3], ReturnedConc.data[1])
  /\ \E i \in 1..Len(solver.evals) : SinQuarter(solver.evals[i].time) = 1

====
